---- MODULE Spec2Model ----
(***************************************************************************)
(* AssetFlow backend (Django REST framework): Categoria / Activo store,    *)
(* the serializers' validation rules and the view handlers that write the  *)
(* store.  Sequential specifications run one request per step; SpecConc    *)
(* interleaves the database statements of concurrent requests (the         *)
(* project does not set ATOMIC_REQUESTS, every statement autocommits).     *)
(***************************************************************************)
EXTENDS Integers, Sequences, FiniteSets, TLC

\* ------------------------------------------------------------------ bounds
MaxAssets == 2
MaxCats == 2
MaxIds == 2
MaxDesc == 3
MaxRichAssets == 1
MaxPatchKeys == 2
MaxWorkers == 2
MaxCodigo == 3

\* ------------------------------------------------------- program constants
HIGH_VALUE == 5000
MIN_DAYS_BAJA == 7
MAX_AGE_DAYS == 18250
MAX_VALOR == 10000000
Today == 20000

AC == "AC"
MA == "MA"
DB == "DB"
RE == "RE"
EstadoActivo == {AC, MA, DB, RE}

\* Python None / '' of a text column: both are falsy everywhere the code
\* reads them (not numero_serie, not descripcion, descripcion or '').
NoSerial == ""
NoDesc == <<>>

AssetFields == {"descripcion", "fecha_adquisicion", "valor_inicial",
                "categoria", "estado", "numero_serie"}
RequiredAssetFields == {"fecha_adquisicion", "valor_inicial", "categoria"}

\* A request body: sub is the set of submitted keys; a key that is not
\* submitted carries a fixed filler that no operator reads.
AssetData(sub, d, f, v, c, e, s) ==
  [sub |-> sub,
   descripcion       |-> IF "descripcion" \in sub THEN d ELSE NoDesc,
   fecha_adquisicion |-> IF "fecha_adquisicion" \in sub THEN f ELSE 0,
   valor_inicial     |-> IF "valor_inicial" \in sub THEN v ELSE 0,
   categoria         |-> IF "categoria" \in sub THEN c ELSE 0,
   estado            |-> IF "estado" \in sub THEN e ELSE "",
   numero_serie      |-> IF "numero_serie" \in sub THEN s ELSE NoSerial]

NoData == AssetData({}, NoDesc, 0, 0, 0, "", NoSerial)

Has(data, f) == f \in data.sub

\* ------------------------------------------------------------------- state
VARIABLES categorias, activos, nextActivoId, nextCategoriaId, last, proc

vars == <<categorias, activos, nextActivoId, nextCategoriaId, last, proc>>
store == <<categorias, activos, nextActivoId, nextCategoriaId>>

CatIds == DOMAIN categorias
ActIds == DOMAIN activos

\* instance.activos : the Activo rows whose categoria is the Categoria c
ActivosDe(acts, c) == {a \in DOMAIN acts : acts[a].categoria = c}

\* instance.activos.exclude(estado=DADO_BAJA)
ActivosEnUso(acts, c) == {a \in ActivosDe(acts, c) : acts[a].estado # DB}

\* A Categoria request body (keys nombre, activa).
CatData(sub, n, a) ==
  [sub |-> sub,
   nombre |-> IF "nombre" \in sub THEN n ELSE "",
   activa |-> IF "activa" \in sub THEN a ELSE TRUE]
NoCatData == CatData({}, "", TRUE)

\* ------------------------------------------------------------- responses
Resp(op, id, ok, status, error, errors, count, data, partial) ==
  [op |-> op, id |-> id, ok |-> ok, status |-> status, error |-> error,
   errors |-> errors, count |-> count, data |-> data, partial |-> partial,
   cat |-> NoCatData, ids |-> <<>>, isList |-> TRUE, motivo |-> "", nombre |-> "",
   estados |-> {}]

NoResp == Resp("none", 0, TRUE, 0, "", {}, 0, NoData, FALSE)


\* --------------------------------------------------- Categoria validation
\* CategoriaSerializer.validate: the set of fields the raised
\* ValidationError names, and the count its message reports.
CategoriaBlocking_CountsAll(acts, hasInstance, c, data) ==
  IF hasInstance /\ "activa" \in data.sub /\ ~data.activa
  THEN Cardinality(ActivosDe(acts, c))
  ELSE 0

CategoriaBlocking(acts, hasInstance, c, data) ==
  IF hasInstance /\ "activa" \in data.sub /\ ~data.activa
  THEN Cardinality(ActivosEnUso(acts, c))
  ELSE 0

CategoriaSerializerValidate(acts, hasInstance, c, data) ==
  IF CategoriaBlocking(acts, hasInstance, c, data) > 0 THEN {"activa"} ELSE {}

\* Field-level phase of CategoriaSerializer.is_valid: nombre is required
\* unless the update is partial, and unique among the other rows.
CategoriaFieldErrors(cats, inst, data, partial) ==
  {f \in {"nombre"} :
     \/ ~partial /\ f \notin data.sub
     \/ /\ f \in data.sub
        /\ \E o \in DOMAIN cats : inst # <<o>> /\ cats[o].nombre = data.nombre}

CategoriaErrors(cats, acts, inst, data, partial) ==
  IF CategoriaFieldErrors(cats, inst, data, partial) # {}
  THEN CategoriaFieldErrors(cats, inst, data, partial)
  ELSE CategoriaSerializerValidate(acts, inst # <<>>, IF inst # <<>> THEN inst[1] ELSE 0, data)

CantidadActivos_EnUso(acts, c) == Cardinality(ActivosEnUso(acts, c))

\* instance.activos.count()
CantidadActivos(acts, c) == Cardinality(ActivosDe(acts, c))

\* ------------------------------------------------------ Activo validation
ActivoFieldErrors_AnyCategoria(cats, acts, inst, data, partial) ==
  {f \in AssetFields :
     \/ /\ ~partial
        /\ f \in RequiredAssetFields
        /\ ~Has(data, f)
     \/ /\ f = "categoria"
        /\ Has(data, f)
        /\ data.categoria \notin DOMAIN cats
     \/ /\ f = "fecha_adquisicion"
        /\ Has(data, f)
        /\ \/ data.fecha_adquisicion > Today
           \/ Today - data.fecha_adquisicion > MAX_AGE_DAYS
     \/ /\ f = "valor_inicial"
        /\ Has(data, f)
        /\ \/ data.valor_inicial <= 0
           \/ data.valor_inicial > MAX_VALOR
     \/ /\ f = "estado"
        /\ Has(data, f)
        /\ data.estado \notin EstadoActivo
     \/ /\ f = "numero_serie"
        /\ Has(data, f)
        /\ data.numero_serie # NoSerial
        /\ \E a \in DOMAIN acts :
              /\ inst # <<a>>
              /\ acts[a].numero_serie = data.numero_serie}

\* Field-level phase of ActivoSerializer.is_valid (to_internal_value):
\* required keys, the related-field lookup, and the validate_<field> hooks.
\* All failing fields are reported together.
ActivoFieldErrors(cats, acts, inst, data, partial) ==
  {f \in AssetFields :
     \/ /\ ~partial
        /\ f \in RequiredAssetFields
        /\ ~Has(data, f)
     \/ /\ f = "categoria"
        /\ Has(data, f)
        /\ \/ data.categoria \notin DOMAIN cats
           \/ ~cats[data.categoria].activa
     \/ /\ f = "fecha_adquisicion"
        /\ Has(data, f)
        /\ \/ data.fecha_adquisicion > Today
           \/ Today - data.fecha_adquisicion > MAX_AGE_DAYS
     \/ /\ f = "valor_inicial"
        /\ Has(data, f)
        /\ \/ data.valor_inicial <= 0
           \/ data.valor_inicial > MAX_VALOR
     \/ /\ f = "estado"
        /\ Has(data, f)
        /\ data.estado \notin EstadoActivo
     \/ /\ f = "numero_serie"
        /\ Has(data, f)
        /\ data.numero_serie # NoSerial
        /\ \E a \in DOMAIN acts :
              /\ inst # <<a>>
              /\ acts[a].numero_serie = data.numero_serie}

\* ActivoSerializer.validate(data): the object-level checks, in source
\* order; the first failing check raises.  inst is <<>> on create and
\* <<id>> on update (self.instance).
SerialCheckFails(data) ==
  /\ Has(data, "valor_inicial")
  /\ data.valor_inicial > HIGH_VALUE
  /\ ~(Has(data, "numero_serie") /\ data.numero_serie # NoSerial)

DescCheckFails_AbsentOk(data) ==
  /\ Has(data, "estado")
  /\ data.estado = DB
  /\ Has(data, "descripcion")
  /\ data.descripcion = NoDesc

DescCheckFails(data) ==
  /\ Has(data, "estado")
  /\ data.estado = DB
  /\ ~(Has(data, "descripcion") /\ data.descripcion # NoDesc)

\* data.get('fecha_adquisicion', getattr(self.instance, 'fecha_adquisicion', None))
\* 0 stands for None (no date at all).
FechaEfectiva(acts, inst, data) ==
  IF Has(data, "fecha_adquisicion") THEN data.fecha_adquisicion
  ELSE IF inst # <<>> THEN acts[inst[1]].fecha_adquisicion
  ELSE 0

DiasCheckFails_Inclusive(acts, inst, data) ==
  /\ Has(data, "estado")
  /\ data.estado = DB
  /\ FechaEfectiva(acts, inst, data) # 0
  /\ Today - FechaEfectiva(acts, inst, data) <= MIN_DAYS_BAJA

DiasCheckFails(acts, inst, data) ==
  /\ Has(data, "estado")
  /\ data.estado = DB
  /\ FechaEfectiva(acts, inst, data) # 0
  /\ Today - FechaEfectiva(acts, inst, data) < MIN_DAYS_BAJA

ActivoSerializerValidate(acts, inst, data) ==
  IF SerialCheckFails(data) THEN {"numero_serie"}
  ELSE IF DescCheckFails(data) THEN {"descripcion"}
  ELSE IF DiasCheckFails(acts, inst, data) THEN {"estado"}
  ELSE {}

\* serializer.is_valid(): object-level validation only runs when every
\* field passed.
ActivoErrors(cats, acts, inst, data, partial) ==
  IF ActivoFieldErrors(cats, acts, inst, data, partial) # {}
  THEN ActivoFieldErrors(cats, acts, inst, data, partial)
  ELSE ActivoSerializerValidate(acts, inst, data)

\* NewActivo with a store that has no default for estado: a body without
\* 'estado' is stored with an empty estado.
NewActivo_NoDefault(data) ==
  [descripcion       |-> IF Has(data, "descripcion") THEN data.descripcion ELSE NoDesc,
   fecha_adquisicion |-> data.fecha_adquisicion,
   valor_inicial     |-> data.valor_inicial,
   categoria         |-> data.categoria,
   estado            |-> IF Has(data, "estado") THEN data.estado ELSE "",
   numero_serie      |-> IF Has(data, "numero_serie") THEN data.numero_serie ELSE NoSerial]

\* Model defaults for the keys a create does not submit.
NewActivo(data) ==
  [descripcion       |-> IF Has(data, "descripcion") THEN data.descripcion ELSE NoDesc,
   fecha_adquisicion |-> data.fecha_adquisicion,
   valor_inicial     |-> data.valor_inicial,
   categoria         |-> data.categoria,
   estado            |-> IF Has(data, "estado") THEN data.estado ELSE AC,
   numero_serie      |-> IF Has(data, "numero_serie") THEN data.numero_serie ELSE NoSerial]

\* ModelSerializer.update: setattr for every validated key, then save().
MergeActivo(row, data) ==
  [f \in AssetFields |-> IF Has(data, f) THEN data[f] ELSE row[f]]

Put(fn, k, v) == [x \in DOMAIN fn \cup {k} |-> IF x = k THEN v ELSE fn[x]]
Drop(fn, k) == [x \in DOMAIN fn \ {k} |-> fn[x]]

\* ---------------------------------------------------- description entries
\* descripcion is text; the model keeps it as the sequence of the pieces it
\* was built from: a piece typed by a client, or one audit line appended by
\* cambiar_estado.  The empty sequence is the empty text.
Texto(t) == [kind |-> "text", anterior |-> "", nuevo |-> "", motivo |-> t]
Audit(anterior, nuevo, motivo) ==
  [kind |-> "audit", anterior |-> anterior, nuevo |-> nuevo, motivo |-> motivo]
SomeDesc == <<Texto("texto")>>

\* ============================ handlers, one request per step ============
\* One request is served at a time: a handler runs when the previous
\* response has been returned, and leaves its own response in last.
Ready == last = NoResp

\* the response is returned to the client
Reply ==
  /\ last # NoResp
  /\ last' = NoResp
  /\ UNCHANGED <<store, proc>>


\* CategoriaViewSet.create -> CategoriaSerializer.is_valid (instance is
\* None) -> Categoria.save
CategoriaCreate(data) ==
  /\ Ready
  /\ nextCategoriaId <= MaxCats
  /\ LET errs == CategoriaErrors(categorias, activos, <<>>, data, FALSE)
     IN IF errs # {}
        THEN /\ last' = [Resp("categoria_create", 0, FALSE, 400, "", errs, 0, NoData, FALSE)
                           EXCEPT !.cat = data]
             /\ UNCHANGED <<categorias, nextCategoriaId>>
        ELSE /\ categorias' = Put(categorias, nextCategoriaId,
                                  [nombre |-> data.nombre,
                                   activa |-> IF "activa" \in data.sub
                                              THEN data.activa ELSE TRUE])
             /\ nextCategoriaId' = nextCategoriaId + 1
             /\ last' = [Resp("categoria_create", nextCategoriaId, TRUE, 201, "", {}, 0,
                              NoData, FALSE) EXCEPT !.cat = data]
  /\ UNCHANGED <<activos, nextActivoId, proc>>

\* CategoriaViewSet.update (partial = FALSE) / partial_update (partial =
\* TRUE) -> CategoriaSerializer.is_valid -> Categoria.save
CategoriaUpdate(c, data, partial) ==
  /\ Ready
  /\ c \in CatIds
  /\ LET errs == CategoriaErrors(categorias, activos, <<c>>, data, partial)
         n == CategoriaBlocking(activos, TRUE, c, data)
     IN IF errs # {}
        THEN /\ last' = [Resp("categoria_update", c, FALSE, 400, "", errs,
                              IF "activa" \in errs THEN n ELSE 0, NoData, partial)
                           EXCEPT !.cat = data]
             /\ UNCHANGED categorias
        ELSE /\ categorias' =
                  [categorias EXCEPT ![c] =
                      [nombre |-> IF "nombre" \in data.sub THEN data.nombre ELSE @.nombre,
                       activa |-> IF "activa" \in data.sub THEN data.activa ELSE @.activa]]
             /\ last' = [Resp("categoria_update", c, TRUE, 200, "", {}, 0, NoData, partial)
                           EXCEPT !.cat = data]
  /\ UNCHANGED <<activos, nextActivoId, nextCategoriaId, proc>>

\* CategoriaViewSet.destroy.  One request at a time: the rows counted are
\* the rows the PROTECT collector and the DELETE statement see.
CategoriaDestroy(c) ==
  /\ Ready
  /\ c \in CatIds
  /\ LET cantidad_activos == CantidadActivos(activos, c)
     IN IF cantidad_activos > 0
        THEN /\ last' = [Resp("categoria_destroy", c, FALSE, 400, "CATEGORIA_CON_ACTIVOS",
                              {}, cantidad_activos, NoData, FALSE)
                           EXCEPT !.nombre = categorias[c].nombre]
             /\ UNCHANGED categorias
        ELSE /\ categorias' = Drop(categorias, c)
             /\ last' = [Resp("categoria_destroy", c, TRUE, 200, "", {}, 0, NoData, FALSE)
                           EXCEPT !.nombre = categorias[c].nombre]
  /\ UNCHANGED <<activos, nextActivoId, nextCategoriaId, proc>>

\* ActivoViewSet.create -> ActivoCreateUpdateSerializer.is_valid ->
\* perform_create -> serializer.save
ActivoCreate(data) ==
  /\ Ready
  /\ LET errs == ActivoErrors(categorias, activos, <<>>, data, FALSE)
     IN IF errs # {}
        THEN /\ last' = Resp("activo_create", 0, FALSE, 400, "", errs, 0, data, FALSE)
             /\ UNCHANGED <<activos, nextActivoId>>
        ELSE /\ activos' = Put(activos, nextActivoId, NewActivo(data))
             /\ nextActivoId' = nextActivoId + 1
             /\ last' = Resp("activo_create", nextActivoId, TRUE, 201, "", {}, 0, data, FALSE)
  /\ UNCHANGED <<categorias, nextCategoriaId, proc>>

\* an update that writes the submitted keys before it validates them
ActivoUpdate_SaveFirst(a, data, partial) ==
  /\ Ready
  /\ a \in ActIds
  /\ LET errs == ActivoErrors(categorias, activos, <<a>>, data, partial)
     IN /\ activos' = [activos EXCEPT ![a] = MergeActivo(@, data)]
        /\ last' = IF errs # {}
                   THEN Resp("activo_update", a, FALSE, 400, "", errs, 0, data, partial)
                   ELSE Resp("activo_update", a, TRUE, 200, "", {}, 0, data, partial)
  /\ UNCHANGED <<categorias, nextActivoId, nextCategoriaId, proc>>

\* ActivoViewSet.update (partial = FALSE) / partial_update (partial = TRUE)
\* -> ActivoCreateUpdateSerializer.is_valid -> perform_update -> save
ActivoUpdate(a, data, partial) ==
  /\ Ready
  /\ a \in ActIds
  /\ LET errs == ActivoErrors(categorias, activos, <<a>>, data, partial)
     IN IF errs # {}
        THEN /\ last' = Resp("activo_update", a, FALSE, 400, "", errs, 0, data, partial)
             /\ UNCHANGED activos
        ELSE /\ activos' = [activos EXCEPT ![a] = MergeActivo(@, data)]
             /\ last' = Resp("activo_update", a, TRUE, 200, "", {}, 0, data, partial)
  /\ UNCHANGED <<categorias, nextActivoId, nextCategoriaId, proc>>

\* ActivoViewSet.destroy
ActivoDestroy(a) ==
  /\ Ready
  /\ a \in ActIds
  /\ activos' = Drop(activos, a)
  /\ last' = Resp("activo_destroy", a, TRUE, 200, "", {}, 0, NoData, FALSE)
  /\ UNCHANGED <<categorias, nextActivoId, nextCategoriaId, proc>>

CambiarEstadoRow_Overwrite(row, nuevo_estado, motivo) ==
  [row EXCEPT
     !.estado = nuevo_estado,
     !.descripcion = IF motivo # "" /\ nuevo_estado \in {DB, MA}
                     THEN <<Audit(row.estado, nuevo_estado, motivo)>>
                     ELSE @]

CambiarEstadoRow_BajaTerminal(row, nuevo_estado, motivo) ==
  IF row.estado = DB THEN row
  ELSE [row EXCEPT
          !.estado = nuevo_estado,
          !.descripcion = IF motivo # "" /\ nuevo_estado \in {DB, MA}
                          THEN Append(@, Audit(row.estado, nuevo_estado, motivo))
                          ELSE @]

\* What cambiar_estado writes into the row once both parameter checks
\* passed: the new estado, and the audit line when a motivo came with a
\* change to DADO_BAJA or MANTENIMIENTO.  activo.save() runs no validation
\* (Activo does not override save, nothing calls full_clean).
CambiarEstadoRow(row, nuevo_estado, motivo) ==
  [row EXCEPT
     !.estado = nuevo_estado,
     !.descripcion = IF motivo # "" /\ nuevo_estado \in {DB, MA}
                     THEN Append(@, Audit(row.estado, nuevo_estado, motivo))
                     ELSE @]

CambiarEstado_NoStateCheck(a, nuevo_estado, motivo) ==
  /\ Ready
  /\ a \in ActIds
  /\ LET req == AssetData({"estado"}, NoDesc, 0, 0, 0, nuevo_estado, NoSerial)
     IN IF nuevo_estado = ""
        THEN /\ last' = [Resp("cambiar_estado", a, FALSE, 400, "MISSING_PARAMETER",
                              {}, 0, req, FALSE) EXCEPT !.motivo = motivo]
             /\ UNCHANGED activos
        ELSE /\ motivo # "" /\ nuevo_estado \in {DB, MA}
                  => Len(activos[a].descripcion) < MaxDesc
             /\ activos' = [activos EXCEPT ![a] = CambiarEstadoRow(@, nuevo_estado, motivo)]
             /\ last' = [Resp("cambiar_estado", a, nuevo_estado \in EstadoActivo,
                              IF nuevo_estado \in EstadoActivo THEN 200 ELSE 400,
                              IF nuevo_estado \in EstadoActivo THEN "" ELSE "INVALID_STATE",
                              {}, 0, req, FALSE)
                           EXCEPT !.motivo = motivo, !.estados = EstadoActivo]
  /\ UNCHANGED <<categorias, nextActivoId, nextCategoriaId, proc>>

\* ActivoViewSet.cambiar_estado; nuevo_estado = "" is an absent or empty
\* 'estado', motivo = "" an absent or empty 'motivo'.
CambiarEstado(a, nuevo_estado, motivo) ==
  /\ Ready
  /\ a \in ActIds
  /\ LET req == AssetData({"estado"}, NoDesc, 0, 0, 0, nuevo_estado, NoSerial)
     IN IF nuevo_estado = ""
        THEN /\ last' = [Resp("cambiar_estado", a, FALSE, 400, "MISSING_PARAMETER",
                              {}, 0, req, FALSE) EXCEPT !.motivo = motivo]
             /\ UNCHANGED activos
        ELSE IF nuevo_estado \notin EstadoActivo
        THEN /\ last' = [Resp("cambiar_estado", a, FALSE, 400, "INVALID_STATE",
                              {}, 0, req, FALSE)
                           EXCEPT !.motivo = motivo, !.estados = EstadoActivo]
             /\ UNCHANGED activos
        ELSE /\ motivo # "" /\ nuevo_estado \in {DB, MA}
                  => Len(activos[a].descripcion) < MaxDesc
             /\ activos' = [activos EXCEPT ![a] = CambiarEstadoRow(@, nuevo_estado, motivo)]
             /\ last' = [Resp("cambiar_estado", a, TRUE, 200, "", {}, 0, req, FALSE)
                           EXCEPT !.motivo = motivo]
  /\ UNCHANGED <<categorias, nextActivoId, nextCategoriaId, proc>>

\* Activo.objects.filter(id__in=ids)
FilterIdIn(acts, ids) == {a \in DOMAIN acts : \E i \in 1..Len(ids) : ids[i] = a}

BulkUpdateEstado_Validated(acts, sel) ==
  [a \in DOMAIN acts |->
     IF /\ a \in sel
        /\ acts[a].descripcion # NoDesc
        /\ Today - acts[a].fecha_adquisicion >= MIN_DAYS_BAJA
     THEN [acts[a] EXCEPT !.estado = DB]
     ELSE acts[a]]

BulkUpdateEstado_PerRow(acts, sel) ==
  [a \in DOMAIN acts |->
     IF a \in sel
     THEN [acts[a] EXCEPT !.estado = DB,
                          !.descripcion = Append(@, Audit(acts[a].estado, DB, "motivo"))]
     ELSE acts[a]]

\* activos.update(estado=DADO_BAJA): one UPDATE statement, no save(), no
\* serializer; returns the number of rows matched.
BulkUpdateEstado(acts, sel) ==
  [a \in DOMAIN acts |-> IF a \in sel THEN [acts[a] EXCEPT !.estado = DB] ELSE acts[a]]

\* An element of 'ids' that is not a number (a text such as "abc"): the
\* id__in lookup converts every element with int() when filter() is called.
NotAnId == -1

\* ActivoViewSet.dar_de_baja_masiva; ids is the submitted list (<<>> when
\* absent or empty), isList = FALSE when 'ids' is not a list.  An element
\* that is not a number makes filter(id__in=ids) raise ValueError, which
\* nothing catches: the request ends as a 500 before the UPDATE.
DarDeBajaMasiva(ids, isList, motivo) ==
  /\ Ready
  /\ IF ids = <<>> \/ ~isList
     THEN /\ last' = [Resp("dar_de_baja_masiva", 0, FALSE, 400, "INVALID_PARAMETER",
                           {}, 0, NoData, FALSE)
                     EXCEPT !.ids = ids, !.isList = isList, !.motivo = motivo]
          /\ UNCHANGED activos
     ELSE IF \E i \in 1..Len(ids) : ids[i] = NotAnId
     THEN /\ last' = [Resp("dar_de_baja_masiva", 0, FALSE, 500, "ValueError",
                           {}, 0, NoData, FALSE)
                     EXCEPT !.ids = ids, !.motivo = motivo]
          /\ UNCHANGED activos
     ELSE /\ activos' = BulkUpdateEstado(activos, FilterIdIn(activos, ids))
          /\ last' = [Resp("dar_de_baja_masiva", 0, TRUE, 200, "", {},
                           Cardinality(FilterIdIn(activos, ids)), NoData, FALSE)
                        EXCEPT !.ids = ids, !.motivo = motivo]
  /\ UNCHANGED <<categorias, nextActivoId, nextCategoriaId, proc>>

\* ========================================================= Categoria.codigo
\* A text is the sequence of its characters.  The characters that matter
\* to the code rules: a lower-case letter, an upper-case letter, a digit,
\* the space and a punctuation mark.
Chars == {"a", "A", "1", " ", "-"}

\* str.upper(), character by character
Upper(ch) == IF ch = "a" THEN "A" ELSE ch
UpperStr(t) == [i \in 1..Len(t) |-> Upper(t[i])]

\* str.strip()
RECURSIVE Strip(_)
Strip(t) ==
  IF t = <<>> THEN t
  ELSE IF Head(t) = " " THEN Strip(Tail(t))
  ELSE IF t[Len(t)] = " " THEN Strip(SubSeq(t, 1, Len(t) - 1))
  ELSE t

\* str.isalnum(): not empty, letters and digits only
IsAlnum(t) == t # <<>> /\ \A i \in 1..Len(t) : t[i] \in {"a", "A", "1"}

ValidateCodigo_AnyChars(value) ==
  IF value = <<>> THEN [ok |-> FALSE, value |-> value]
  ELSE LET v == Strip(UpperStr(value))
       IN IF \E i \in 1..Len(v) : v[i] = " " THEN [ok |-> FALSE, value |-> v]
          ELSE [ok |-> TRUE, value |-> v]

\* CategoriaSerializer.validate_codigo: ok = FALSE when it raises, else
\* the value it returns
ValidateCodigo(value) ==
  IF value = <<>> THEN [ok |-> FALSE, value |-> value]
  ELSE LET v == Strip(UpperStr(value))
       IN IF \E i \in 1..Len(v) : v[i] = " " THEN [ok |-> FALSE, value |-> v]
          ELSE IF ~IsAlnum(v) THEN [ok |-> FALSE, value |-> v]
          ELSE [ok |-> TRUE, value |-> v]

\* The codigo field of CategoriaSerializer.is_valid: the CharField trims
\* the submitted text and refuses a blank one, the UniqueValidator looks
\* for another row with exactly the trimmed text, then validate_codigo
\* runs.  inst is <<>> on create and <<id>> on update.
CodigoField(cats, inst, raw) ==
  LET trimmed == Strip(raw)
  IN IF trimmed = <<>> THEN [ok |-> FALSE, value |-> trimmed]
     ELSE IF \E o \in DOMAIN cats : inst # <<o>> /\ cats[o].codigo = trimmed
     THEN [ok |-> FALSE, value |-> trimmed]
     ELSE ValidateCodigo(trimmed)

\* Categoria.clean: self.codigo = self.codigo.upper().strip()
CategoriaClean(row) ==
  [row EXCEPT !.codigo = IF @ # <<>> THEN Strip(UpperStr(@)) ELSE @]

\* a save that does not look for the cleaned codigo in the other rows
CodigoTaken_Unchecked(cats, inst, row) == FALSE

\* Categoria.save -> full_clean -> validate_unique, after clean(): another
\* row holds the cleaned codigo.  The django ValidationError it raises is
\* not one the REST framework turns into a 400.
CodigoTaken(cats, inst, row) ==
  \E o \in DOMAIN cats : inst # <<o>> /\ cats[o].codigo = row.codigo

\* the response of a create or update that submitted codigo = raw
CodigoResp(op, c, raw, ok, status, errors) ==
  [op |-> op, id |-> c, raw |-> raw, ok |-> ok, status |-> status, errors |-> errors]

\* CategoriaViewSet.create with a valid nombre and the codigo raw ->
\* CategoriaSerializer.is_valid -> Categoria.save
CategoriaCreateCodigo(nombre, raw) ==
  /\ Ready
  /\ LET f == CodigoField(categorias, <<>>, raw)
         row == CategoriaClean([nombre |-> nombre, activa |-> TRUE, codigo |-> f.value])
     IN IF ~f.ok
        THEN /\ last' = CodigoResp("categoria_create", 0, raw, FALSE, 400, {"codigo"})
             /\ UNCHANGED <<categorias, nextCategoriaId>>
        ELSE IF CodigoTaken(categorias, <<>>, row)
        THEN /\ last' = CodigoResp("categoria_create", 0, raw, FALSE, 500, {})
             /\ UNCHANGED <<categorias, nextCategoriaId>>
        ELSE /\ categorias' = Put(categorias, nextCategoriaId, row)
             /\ nextCategoriaId' = nextCategoriaId + 1
             /\ last' = CodigoResp("categoria_create", nextCategoriaId, raw, TRUE, 201, {})
  /\ UNCHANGED <<activos, nextActivoId, proc>>

\* CategoriaViewSet.partial_update with the body {codigo: raw}
CategoriaPatchCodigo(c, raw) ==
  /\ Ready
  /\ c \in CatIds
  /\ LET f == CodigoField(categorias, <<c>>, raw)
         row == CategoriaClean([categorias[c] EXCEPT !.codigo = f.value])
     IN IF ~f.ok
        THEN /\ last' = CodigoResp("categoria_update", c, raw, FALSE, 400, {"codigo"})
             /\ UNCHANGED categorias
        ELSE IF CodigoTaken(categorias, <<c>>, row)
        THEN /\ last' = CodigoResp("categoria_update", c, raw, FALSE, 500, {})
             /\ UNCHANGED categorias
        ELSE /\ categorias' = [categorias EXCEPT ![c] = row]
             /\ last' = CodigoResp("categoria_update", c, raw, TRUE, 200, {})
  /\ UNCHANGED <<activos, nextActivoId, nextCategoriaId, proc>>

\* ===================================================== read-only queries
\* request.query_params: sub is the set of parameters that are present
\* with a non-empty value ('valiosos' and 'requieren_revision': with the
\* value 'true'); a parameter that is not present carries a filler.
Query(sub, c, e, vmin, vmax) ==
  [sub |-> sub,
   categoria |-> IF "categoria" \in sub THEN c ELSE 0,
   estado    |-> IF "estado" \in sub THEN e ELSE "",
   valor_min |-> IF "valor_min" \in sub THEN vmin ELSE 0,
   valor_max |-> IF "valor_max" \in sub THEN vmax ELSE 0]

QueryParams == {"categoria", "estado", "valor_min", "valor_max", "valiosos",
                "requieren_revision"}

\* timedelta(days=365*5)
DiasLimite == 365 * 5

\* ActivoViewSet.get_queryset: the ids of the rows the filters keep
GetQueryset(acts, q) ==
  {a \in DOMAIN acts :
     /\ "categoria" \in q.sub => acts[a].categoria = q.categoria
     /\ "estado" \in q.sub => acts[a].estado = q.estado
     /\ "valor_min" \in q.sub => acts[a].valor_inicial >= q.valor_min
     /\ "valor_max" \in q.sub => acts[a].valor_inicial <= q.valor_max
     /\ "valiosos" \in q.sub => acts[a].valor_inicial > HIGH_VALUE
     /\ "requieren_revision" \in q.sub
           => acts[a].fecha_adquisicion <= Today - DiasLimite}

\* Sum('valor_inicial') over the rows of sel; 0 stands for the None that
\* the handlers turn into 0 (float(x or 0))
RECURSIVE SumValor(_, _)
SumValor(acts, sel) ==
  IF sel = {} THEN 0
  ELSE LET a == CHOOSE x \in sel : TRUE
       IN acts[a].valor_inicial + SumValor(acts, sel \ {a})

BAND_LOW == 1000
BAND_HIGH == 10000

RangosDeValor_Exclusive(acts, sel) ==
  [menos_1000 |-> Cardinality({a \in sel : acts[a].valor_inicial < BAND_LOW}),
   entre_1000_y_10000 |->
     Cardinality({a \in sel : /\ acts[a].valor_inicial > BAND_LOW
                              /\ acts[a].valor_inicial < BAND_HIGH}),
   mas_de_10000 |-> Cardinality({a \in sel : acts[a].valor_inicial > BAND_HIGH})]

\* resumen['rangos_de_valor']
RangosDeValor(acts, sel) ==
  [menos_1000 |-> Cardinality({a \in sel : acts[a].valor_inicial < BAND_LOW}),
   entre_1000_y_10000 |->
     Cardinality({a \in sel : /\ acts[a].valor_inicial >= BAND_LOW
                              /\ acts[a].valor_inicial < BAND_HIGH}),
   mas_de_10000 |-> Cardinality({a \in sel : acts[a].valor_inicial >= BAND_HIGH})]

\* resumen['por_categoria']: Categoria.objects.annotate(cantidad=
\* Count('activos'), valor=Sum('activos__valor_inicial'))
\* .filter(cantidad__gt=0), a query on the Categoria table that does not
\* go through get_queryset; kept as a function of the Categoria id.
PorCategoria(cats, acts) ==
  [c \in {k \in DOMAIN cats : Cardinality(ActivosDe(acts, k)) > 0} |->
     [nombre |-> cats[c].nombre,
      cantidad |-> Cardinality(ActivosDe(acts, c)),
      valor_total |-> SumValor(acts, ActivosDe(acts, c))]]

\* the body of the Response of ActivoViewSet.resumen
Resumen(cats, acts, q) ==
  LET sel == GetQueryset(acts, q)
  IN [op |-> "resumen", query |-> q,
      total_activos |-> Cardinality(sel),
      valor_total |-> SumValor(acts, sel),
      por_categoria |-> PorCategoria(cats, acts),
      por_estado |-> [e \in EstadoActivo |->
                        Cardinality({a \in sel : acts[a].estado = e})],
      rangos_de_valor |-> RangosDeValor(acts, sel)]

\* ActivoViewSet.resumen: GET /activos/resumen/
ResumenGet(q) ==
  /\ Ready
  /\ last' = Resumen(categorias, activos, q)
  /\ UNCHANGED <<store, proc>>

TotalActivos_EnUso(acts, c) == Cardinality(ActivosEnUso(acts, c))

\* CategoriaSerializer.get_total_activos: obj.activos.count()
TotalActivos(acts, c) == Cardinality(ActivosDe(acts, c))

\* CategoriaSerializer.get_valor_total:
\* float(obj.activos.aggregate(total=Sum('valor_inicial'))['total'] or 0)
ValorTotal(acts, c) == SumValor(acts, ActivosDe(acts, c))

\* CategoriaViewSet.retrieve: GET /categorias/{id}/, the derived fields of
\* the serialized Categoria
CategoriaRetrieve(c) ==
  /\ Ready
  /\ c \in CatIds
  /\ last' = [op |-> "categoria_retrieve", id |-> c,
              total_activos |-> TotalActivos(activos, c),
              valor_total |-> ValorTotal(activos, c)]
  /\ UNCHANGED <<store, proc>>

\* ActivoViewSet.list: GET /activos/; the ids of the rows served (a page
\* holds 20 rows, more than are ever stored here)
ActivoList(q) ==
  /\ Ready
  /\ last' = [op |-> "activo_list", query |-> q, results |-> GetQueryset(activos, q)]
  /\ UNCHANGED <<store, proc>>

\* ------------------------------------------------------- derived fields
\* Activo.edad_en_dias
EdadEnDias(row) == Today - row.fecha_adquisicion

\* Activo.edad_en_anios, in tenths of a year: round(edad_en_dias / 365.25,
\* 1) * 10, the integer nearest to 40 * dias / 1461 (never halfway between
\* two integers: 80 * dias is even, 1461 * (2k + 1) is odd)
EdadEnAnios(row) == (80 * EdadEnDias(row) + 1461) \div 2922

\* Activo.requiere_revision: edad_en_anios > 5
RequiereRevision(row) == EdadEnAnios(row) > 5 * 10

\* Activo.es_valioso
EsValioso(row) == row.valor_inicial > HIGH_VALUE

\* ======================================================== request bodies
Optional == AssetFields \ RequiredAssetFields

\* JSON bodies over the given value sets, with the submitted keys drawn
\* from subs.
Bodies(subs, descs, fechas, valores, cats, estados, seriales) ==
  {AssetData(sub, d, f, v, c, e, s) :
     sub \in subs, d \in descs, f \in fechas, v \in valores,
     c \in cats, e \in estados, s \in seriales}

\* lists of up to MaxIds asset ids, ids of no stored row included
IdLists == UNION {[1..n -> 1..(MaxAssets + 1)] : n \in 0..MaxIds}

CatNames == {"Electronica", "Vehiculos"}
CatBodies ==
  {CatData(sub, n, a) : sub \in SUBSET {"nombre", "activa"}, n \in CatNames, a \in BOOLEAN}
CatPatchBodies == {CatData(sub, "", a) : sub \in SUBSET {"activa"}, a \in BOOLEAN}

EmptyStore ==
  /\ categorias = <<>>
  /\ activos = <<>>
  /\ nextActivoId = 1
  /\ nextCategoriaId = 1
  /\ last = NoResp
  /\ proc = <<>>

\* ------------------------------------------------------------------ Spec
\* Categories and the assets that block their deactivation and deletion.
CatSpecCreateBodies ==
  Bodies({RequiredAssetFields \cup o : o \in SUBSET {"estado"}},
         {NoDesc}, {Today - 6}, {500}, 1..MaxCats, {AC, DB}, {NoSerial})

CatSpecPatchBodies ==
  Bodies({{"categoria"}, {"estado"}},
         {NoDesc}, {Today - 6}, {500}, 1..MaxCats, {MA}, {NoSerial})

Init == EmptyStore

Next ==
  \/ \E data \in CatBodies : CategoriaCreate(data)
  \/ \E c \in 1..MaxCats, data \in CatPatchBodies : CategoriaUpdate(c, data, TRUE)
  \/ \E c \in 1..MaxCats : CategoriaDestroy(c)
  \/ nextActivoId <= MaxAssets /\ \E data \in CatSpecCreateBodies : ActivoCreate(data)
  \/ \E a \in 1..MaxAssets, data \in CatSpecPatchBodies : ActivoUpdate(a, data, TRUE)
  \/ \E a \in 1..MaxAssets, e \in {AC, DB} : CambiarEstado(a, e, "")
  \/ \E ids \in IdLists, isList \in BOOLEAN :
        (isList \/ ids = <<>>) /\ DarDeBajaMasiva(ids, isList, "obsoleto")
  \/ \E a \in 1..MaxAssets : ActivoDestroy(a)
  \/ Reply

Spec == Init /\ [][Next]_vars

\* ------------------------------------------------------------ SpecActivo
\* One active Categoria exists (created by an earlier CategoriaCreate);
\* full request bodies reach the asset handlers.
RichFechas == {Today - 7, Today - 6}
RichValores == {500, 6000}
RichDescs == {NoDesc, SomeDesc}
RichEstados == {AC, DB}
RichSeriales == {NoSerial, "SN001"}

RichCreateBodies ==
  Bodies({RequiredAssetFields \cup o : o \in SUBSET Optional},
         RichDescs, RichFechas, RichValores, {1}, RichEstados, RichSeriales)

RichPatchBodies ==
  Bodies({sub \in SUBSET AssetFields : Cardinality(sub) <= MaxPatchKeys},
         RichDescs, RichFechas \cup {Today + 1}, RichValores, {1}, RichEstados,
         RichSeriales)

InitActivo ==
  /\ categorias = <<[nombre |-> "Electronica", activa |-> TRUE]>>
  /\ activos = <<>>
  /\ nextActivoId = 1
  /\ nextCategoriaId = 2
  /\ last = NoResp
  /\ proc = <<>>

NextActivo ==
  \/ nextActivoId <= MaxRichAssets /\ \E data \in RichCreateBodies : ActivoCreate(data)
  \/ \E a \in 1..MaxRichAssets, data \in RichCreateBodies : ActivoUpdate(a, data, FALSE)
  \/ \E a \in 1..MaxRichAssets, data \in RichPatchBodies : ActivoUpdate(a, data, TRUE)
  \/ \E a \in 1..MaxRichAssets, e \in {AC, DB, "", "XX"} : CambiarEstado(a, e, "")
  \/ \E ids \in IdLists, isList \in BOOLEAN :
        (isList \/ ids = <<>>) /\ DarDeBajaMasiva(ids, isList, "obsoleto")
  \/ \E a \in 1..MaxRichAssets : ActivoDestroy(a)
  \/ Reply

SpecActivo == InitActivo /\ [][NextActivo]_vars

\* ============ handlers, one database statement per step (SpecConc) ======
\* A worker serves one request at a time; proc[w] is the request it is
\* serving: its place in the handler (pc), the parameters, the row it
\* loaded (inst) and, once it has answered, the response.
Workers == 1..MaxWorkers

Idle == [pc |-> "idle", op |-> "none", id |-> 0, cat |-> NoCatData, data |-> NoData,
         inst |-> <<>>, resp |-> NoResp]

Begin(pc, op, id, cat, data, inst) ==
  [pc |-> pc, op |-> op, id |-> id, cat |-> cat, data |-> data, inst |-> inst,
   resp |-> NoResp]

Answer(p, ok, status, error, errors, count) ==
  [p EXCEPT !.pc = "done",
            !.resp = [Resp(p.op, p.id, ok, status, error, errors, count, p.data, TRUE)
                        EXCEPT !.cat = p.cat]]

\* creates that passed validation and have not inserted yet
PendingInserts == Cardinality({w \in Workers : proc[w].pc = "insert"})

\* --- CategoriaViewSet.destroy
\* instance = self.get_object()
DestroyGetObject(w, c) ==
  /\ proc[w].pc = "idle"
  /\ c \in CatIds
  /\ proc' = [proc EXCEPT ![w] =
                Begin("count", "categoria_destroy", c, NoCatData, NoData, <<categorias[c]>>)]
  /\ UNCHANGED <<store, last>>

\* cantidad_activos = instance.activos.count(); if cantidad_activos > 0: 400
DestroyCount(w) ==
  /\ proc[w].pc = "count"
  /\ LET n == CantidadActivos(activos, proc[w].id)
     IN proc' = [proc EXCEPT ![w] =
                   IF n > 0
                   THEN Answer(@, FALSE, 400, "CATEGORIA_CON_ACTIVOS", {}, n)
                   ELSE [@ EXCEPT !.pc = "collect"]]
  /\ UNCHANGED <<store, last>>

\* instance.delete(), first half: the deletion collector selects the rows
\* that reference the instance; on_delete=PROTECT raises ProtectedError if
\* there are any, and destroy answers 400 PROTECTED_ERROR.
DestroyCollect(w) ==
  /\ proc[w].pc = "collect"
  /\ proc' = [proc EXCEPT ![w] =
                IF ActivosDe(activos, proc[w].id) # {}
                THEN Answer(@, FALSE, 400, "PROTECTED_ERROR", {}, 0)
                ELSE [@ EXCEPT !.pc = "delete"]]
  /\ UNCHANGED <<store, last>>

\* instance.delete(), second half: the DELETE statement.  The foreign key
\* of Activo.categoria makes the database refuse it while a row references
\* the Categoria: that is an IntegrityError, not a ProtectedError, and
\* destroy's `except Exception` answers 500 INTERNAL_ERROR.
DestroyDelete(w) ==
  /\ proc[w].pc = "delete"
  /\ IF ActivosDe(activos, proc[w].id) # {}
     THEN /\ proc' = [proc EXCEPT ![w] = Answer(@, FALSE, 500, "INTERNAL_ERROR", {}, 0)]
          /\ UNCHANGED categorias
     ELSE /\ categorias' = Drop(categorias, proc[w].id)
          /\ proc' = [proc EXCEPT ![w] = Answer(@, TRUE, 200, "", {}, 0)]
  /\ UNCHANGED <<activos, nextActivoId, nextCategoriaId, last>>

\* --- CategoriaViewSet.partial_update
\* instance = self.get_object()
CatUpdGetObject(w, c, data) ==
  /\ proc[w].pc = "idle"
  /\ c \in CatIds
  /\ proc' = [proc EXCEPT ![w] =
                Begin("validate", "categoria_update", c, data, NoData, <<categorias[c]>>)]
  /\ UNCHANGED <<store, last>>

\* serializer.is_valid(): CategoriaSerializer.validate counts the assets
\* in use
CatUpdValidate(w) ==
  /\ proc[w].pc = "validate"
  /\ proc[w].op = "categoria_update"
  /\ LET errs == CategoriaErrors(categorias, activos, <<proc[w].id>>, proc[w].cat, TRUE)
         n == CategoriaBlocking(activos, TRUE, proc[w].id, proc[w].cat)
     IN proc' = [proc EXCEPT ![w] =
                   IF errs # {}
                   THEN Answer(@, FALSE, 400, "", errs, IF "activa" \in errs THEN n ELSE 0)
                   ELSE [@ EXCEPT !.pc = "save"]]
  /\ UNCHANGED <<store, last>>

\* serializer.save() -> Categoria.save(): writes every column of the
\* loaded instance with the validated keys set on it (an UPDATE by primary
\* key that falls back to an INSERT when no row has that key any more).
CatUpdSave(w) ==
  /\ proc[w].pc = "save"
  /\ proc[w].op = "categoria_update"
  /\ LET row == proc[w].inst[1]
         data == proc[w].cat
     IN categorias' =
          Put(categorias, proc[w].id,
              [nombre |-> IF "nombre" \in data.sub THEN data.nombre ELSE row.nombre,
               activa |-> IF "activa" \in data.sub THEN data.activa ELSE row.activa])
  /\ proc' = [proc EXCEPT ![w] = Answer(@, TRUE, 200, "", {}, 0)]
  /\ UNCHANGED <<activos, nextActivoId, nextCategoriaId, last>>

\* --- ActivoViewSet.create
\* serializer.is_valid(): the categoria lookup and validate_categoria read
\* the Categoria row now
ActCreateValidate(w, data) ==
  /\ proc[w].pc = "idle"
  /\ LET errs == ActivoErrors(categorias, activos, <<>>, data, FALSE)
         p == Begin("insert", "activo_create", 0, NoCatData, data, <<>>)
     IN proc' = [proc EXCEPT ![w] =
                   IF errs # {} THEN Answer(p, FALSE, 400, "", errs, 0) ELSE p]
  /\ UNCHANGED <<store, last>>

\* the INSERT violates a constraint of the table (the categoria row is
\* gone, or the numero_serie is taken): IntegrityError
RowRefused(cats, acts, self, row) ==
  \/ row.categoria \notin DOMAIN cats
  \/ /\ row.numero_serie # NoSerial
     /\ \E o \in DOMAIN acts \ self : acts[o].numero_serie = row.numero_serie

\* perform_create -> serializer.save(): the INSERT; an IntegrityError is
\* not caught by the view and becomes a 500
ActCreateInsert(w) ==
  /\ proc[w].pc = "insert"
  /\ IF RowRefused(categorias, activos, {}, NewActivo(proc[w].data))
     THEN /\ proc' = [proc EXCEPT ![w] = Answer(@, FALSE, 500, "IntegrityError", {}, 0)]
          /\ UNCHANGED <<activos, nextActivoId>>
     ELSE /\ activos' = Put(activos, nextActivoId, NewActivo(proc[w].data))
          /\ nextActivoId' = nextActivoId + 1
          /\ proc' = [proc EXCEPT ![w] =
                        Answer([@ EXCEPT !.id = nextActivoId], TRUE, 201, "", {}, 0)]
  /\ UNCHANGED <<categorias, nextCategoriaId, last>>

\* --- ActivoViewSet.partial_update
\* instance = self.get_object(); serializer.is_valid()
ActUpdValidate(w, a, data) ==
  /\ proc[w].pc = "idle"
  /\ a \in ActIds
  /\ LET errs == ActivoErrors(categorias, activos, <<a>>, data, TRUE)
         p == Begin("save", "activo_update", a, NoCatData, data, <<activos[a]>>)
     IN proc' = [proc EXCEPT ![w] =
                   IF errs # {} THEN Answer(p, FALSE, 400, "", errs, 0) ELSE p]
  /\ UNCHANGED <<store, last>>

\* perform_update -> serializer.save(): every column of the loaded
\* instance is written back with the validated keys set on it
ActUpdSave(w) ==
  /\ proc[w].pc = "save"
  /\ proc[w].op = "activo_update"
  /\ LET row == MergeActivo(proc[w].inst[1], proc[w].data)
     IN IF RowRefused(categorias, activos, {proc[w].id}, row)
        THEN /\ proc' = [proc EXCEPT ![w] = Answer(@, FALSE, 500, "IntegrityError", {}, 0)]
             /\ UNCHANGED activos
        ELSE /\ activos' = Put(activos, proc[w].id, row)
             /\ proc' = [proc EXCEPT ![w] = Answer(@, TRUE, 200, "", {}, 0)]
  /\ UNCHANGED <<categorias, nextActivoId, nextCategoriaId, last>>

\* the response has been sent; the worker takes the next request
Respond(w) ==
  /\ proc[w].pc = "done"
  /\ proc' = [proc EXCEPT ![w] = Idle]
  /\ UNCHANGED <<store, last>>

\* -------------------------------------------------------------- SpecConc
\* Two active Categorias exist; requests that delete or deactivate one run
\* beside requests that create an asset in one or move an asset into one.
ConcCatBodies == {CatData({"activa"}, "", a) : a \in BOOLEAN}

ConcCreateBodies ==
  Bodies({RequiredAssetFields, RequiredAssetFields \cup {"estado", "descripcion"}},
         {SomeDesc}, {Today - 30}, {500}, {1, 2}, {AC, DB}, {NoSerial})

ConcPatchBodies ==
  Bodies({{"categoria"}}, {NoDesc}, {Today - 30}, {500}, {1, 2}, {AC}, {NoSerial})

InitConc ==
  /\ categorias = <<[nombre |-> "Electronica", activa |-> TRUE],
                    [nombre |-> "Vehiculos", activa |-> TRUE]>>
  /\ activos = <<>>
  /\ nextActivoId = 1
  /\ nextCategoriaId = 3
  /\ last = NoResp
  /\ proc = [w \in Workers |-> Idle]

NextConc ==
  \E w \in Workers :
    \/ \E c \in {1, 2} : DestroyGetObject(w, c)
    \/ DestroyCount(w)
    \/ DestroyCollect(w)
    \/ DestroyDelete(w)
    \/ \E c \in {1, 2}, data \in ConcCatBodies : CatUpdGetObject(w, c, data)
    \/ CatUpdValidate(w)
    \/ CatUpdSave(w)
    \/ /\ nextActivoId + PendingInserts <= MaxAssets
       /\ \E data \in ConcCreateBodies : ActCreateValidate(w, data)
    \/ ActCreateInsert(w)
    \/ \E a \in 1..MaxAssets, data \in ConcPatchBodies : ActUpdValidate(w, a, data)
    \/ ActUpdSave(w)
    \/ Respond(w)

SpecConc == InitConc /\ [][NextConc]_vars

\* -------------------------------------------------------------- SpecBulk
\* Two active Categorias; assets with and without a descripcion are
\* created in them and decommissioned in bulk, with a reason.
BulkCreateBodies ==
  Bodies({RequiredAssetFields \cup {"descripcion", "estado"}},
         RichDescs, {Today - 6}, {500}, {1, 2}, {AC, MA}, {NoSerial})

BulkMotivos == {"obsoleto", "robo"}

InitBulk ==
  /\ categorias = <<[nombre |-> "Electronica", activa |-> TRUE],
                    [nombre |-> "Vehiculos", activa |-> TRUE]>>
  /\ activos = <<>>
  /\ nextActivoId = 1
  /\ nextCategoriaId = 3
  /\ last = NoResp
  /\ proc = <<>>

NextBulk ==
  \/ nextActivoId <= MaxAssets /\ \E data \in BulkCreateBodies : ActivoCreate(data)
  \/ \E ids \in IdLists, m \in BulkMotivos : DarDeBajaMasiva(ids, TRUE, m)
  \/ \E a \in 1..MaxAssets : ActivoDestroy(a)
  \/ Reply

SpecBulk == InitBulk /\ [][NextBulk]_vars

\* ------------------------------------------------------------- SpecAudit
\* One asset of the one active Categoria, created with or without a
\* descripcion; cambiar_estado is called with every estado, valid or not,
\* with and without a motivo, and dar_de_baja_masiva decommissions it.
AuditCreateBodies ==
  Bodies({RequiredAssetFields \cup {"descripcion"}},
         RichDescs, {Today - 6}, {500}, {1}, {AC}, {NoSerial})

AuditEstados == EstadoActivo \cup {"", "XX"}
AuditMotivos == {"", "preventivo"}

NextAudit ==
  \/ nextActivoId = 1 /\ \E data \in AuditCreateBodies : ActivoCreate(data)
  \/ \E e \in AuditEstados, m \in AuditMotivos : CambiarEstado(1, e, m)
  \/ DarDeBajaMasiva(<<1>>, TRUE, "obsoleto")
  \/ Reply

SpecAudit == InitActivo /\ [][NextAudit]_vars

\* ----------------------------------------------------------- SpecResumen
\* Two active Categorias; assets that differ in categoria, estado, value
\* and age are created and deleted, and the summary is read under every
\* combination of filters.
ResumenCreateBodies ==
  Bodies({RequiredAssetFields \cup {"estado"}},
         {NoDesc}, {Today - 8, Today - DiasLimite}, {500}, {1, 2}, {AC, MA},
         {NoSerial})
  \cup
  Bodies({RequiredAssetFields \cup {"estado", "numero_serie"}},
         {NoDesc}, {Today - 8}, {6000}, {1, 2}, {AC, MA}, {"SN001", "SN002"})

ResumenQueries ==
  {Query(sub, c, e, 500, 500) :
     sub \in SUBSET QueryParams, c \in {1}, e \in {MA}}

NextResumen ==
  \/ nextActivoId <= MaxAssets /\ \E data \in ResumenCreateBodies : ActivoCreate(data)
  \/ \E q \in ResumenQueries : ResumenGet(q)
  \/ \E a \in 1..MaxAssets : ActivoDestroy(a)
  \/ Reply

SpecResumen == InitBulk /\ [][NextResumen]_vars

\* ------------------------------------------------------------ SpecBandas
\* One active Categoria; assets whose values lie below, on and above the
\* limits of the value bands; the summary is read with and without a
\* value range.
BandasCreateBodies ==
  Bodies({RequiredAssetFields}, {NoDesc}, {Today - 8}, {500, 1000, 1500}, {1}, {AC},
         {NoSerial})
  \cup {AssetData(RequiredAssetFields \cup {"numero_serie"}, NoDesc, Today - 8, 10000,
                  1, AC, "SN001"),
         AssetData(RequiredAssetFields \cup {"numero_serie"}, NoDesc, Today - 8, 12000,
                  1, AC, "SN002")}

BandasQueries ==
  {Query(sub, 0, "", 1000, 10000) : sub \in SUBSET {"valor_min", "valor_max"}}

NextBandas ==
  \/ nextActivoId <= MaxAssets + 1 /\ \E data \in BandasCreateBodies : ActivoCreate(data)
  \/ \E q \in BandasQueries : ResumenGet(q)
  \/ \E a \in 1..(MaxAssets + 1) : ActivoDestroy(a)
  \/ Reply

SpecBandas == InitActivo /\ [][NextBandas]_vars

\* ---------------------------------------------------------- SpecRevision
\* One active Categoria; assets acquired around five years ago; the list
\* is read with and without the requieren_revision filter.
RevisionDias == {8, DiasLimite - 1, DiasLimite, DiasLimite + 1, 1844, 1845, 3653}

RevisionCreateBodies ==
  Bodies({RequiredAssetFields}, {NoDesc}, {Today - d : d \in RevisionDias}, {500}, {1},
         {AC}, {NoSerial})

RevisionQueries == {Query(sub, 0, "", 0, 0) : sub \in SUBSET {"requieren_revision"}}

NextRevision ==
  \/ nextActivoId <= MaxAssets /\ \E data \in RevisionCreateBodies : ActivoCreate(data)
  \/ \E q \in RevisionQueries : ActivoList(q)
  \/ \E a \in 1..MaxAssets : ActivoDestroy(a)
  \/ Reply

SpecRevision == InitActivo /\ [][NextRevision]_vars

\* ----------------------------------------------------------- SpecTotales
\* Two active Categorias; assets of two values are created in them,
\* moved between them, decommissioned one by one or in bulk, and deleted;
\* the Categorias are read in between.
TotalesCreateBodies ==
  Bodies({RequiredAssetFields}, {NoDesc}, {Today - 8}, {500, 1500}, {1, 2}, {AC},
         {NoSerial})

NextTotales ==
  \/ nextActivoId <= MaxAssets /\ \E data \in TotalesCreateBodies : ActivoCreate(data)
  \/ \E a \in 1..MaxAssets : CambiarEstado(a, DB, "")
  \/ \E ids \in IdLists : DarDeBajaMasiva(ids, TRUE, "obsoleto")
  \/ \E a \in 1..MaxAssets : ActivoDestroy(a)
  \/ \E a \in 1..MaxAssets, data \in ConcPatchBodies : ActivoUpdate(a, data, TRUE)
  \/ \E c \in {1, 2} : CategoriaRetrieve(c)
  \/ Reply

SpecTotales == InitBulk /\ [][NextTotales]_vars

\* ------------------------------------------------------------ SpecCodigo
\* One Categoria is stored with the codigo "A1" and is saved again with
\* every text of up to MaxCodigo characters; a second one is created with
\* a text of up to two characters.
Codigos == UNION {[1..n -> Chars] : n \in 0..MaxCodigo}
CodigosCortos == {t \in Codigos : Len(t) <= 2}

InitCodigo ==
  /\ categorias = <<[nombre |-> "Electronica", activa |-> TRUE, codigo |-> <<"A", "1">>]>>
  /\ activos = <<>>
  /\ nextActivoId = 1
  /\ nextCategoriaId = 2
  /\ last = NoResp
  /\ proc = <<>>

NextCodigo ==
  \/ nextCategoriaId = 2 /\ \E raw \in CodigosCortos : CategoriaCreateCodigo("Vehiculos", raw)
  \/ \E raw \in Codigos : CategoriaPatchCodigo(1, raw)
  \/ Reply

SpecCodigo == InitCodigo /\ [][NextCodigo]_vars

\* --------------------------------------------------------- SpecBulkParam
\* One active Categoria; dar_de_baja_masiva is called with 'ids' absent,
\* not a list, or a list whose elements are ids of stored rows, ids of no
\* row, or not numbers.
ParamIdLists == UNION {[1..n -> {1, MaxAssets + 1, NotAnId}] : n \in 0..MaxIds}

ParamCreateBodies ==
  Bodies({RequiredAssetFields \cup {"estado"}}, {NoDesc}, {Today - 8}, {500}, {1},
         {AC, MA, RE}, {NoSerial})

NextBulkParam ==
  \/ nextActivoId <= MaxAssets /\ \E data \in ParamCreateBodies : ActivoCreate(data)
  \/ \E ids \in ParamIdLists, isList \in BOOLEAN :
        (isList \/ ids = <<>>) /\ DarDeBajaMasiva(ids, isList, "obsoleto")
  \/ Reply

SpecBulkParam == InitActivo /\ [][NextBulkParam]_vars

\* ------------------------------------------------------------ SpecEstado
\* One active Categoria; every operation that writes estado is called with
\* each of the four choices, with a text that is no choice, and (create)
\* with no estado at all.
EstadoBodies ==
  Bodies({RequiredAssetFields, RequiredAssetFields \cup {"estado"},
          RequiredAssetFields \cup {"estado", "descripcion"}},
         {SomeDesc}, {Today - 8}, {500}, {1}, EstadoActivo \cup {"XX"}, {NoSerial})

EstadoPatchBodies ==
  Bodies({{"estado"}, {"estado", "descripcion"}},
         {SomeDesc}, {Today - 8}, {500}, {1}, EstadoActivo \cup {"", "XX"}, {NoSerial})

NextEstado ==
  \/ nextActivoId <= MaxRichAssets /\ \E data \in EstadoBodies : ActivoCreate(data)
  \/ \E a \in 1..MaxRichAssets, data \in EstadoBodies : ActivoUpdate(a, data, FALSE)
  \/ \E a \in 1..MaxRichAssets, data \in EstadoPatchBodies : ActivoUpdate(a, data, TRUE)
  \/ \E a \in 1..MaxRichAssets, e \in EstadoActivo \cup {"", "XX"} :
        CambiarEstado(a, e, "")
  \/ \E a \in 1..MaxRichAssets : DarDeBajaMasiva(<<a>>, TRUE, "obsoleto")
  \/ Reply

SpecEstado == InitActivo /\ [][NextEstado]_vars

\* ------------------------------------------------------------ SpecCambio
\* --- ActivoViewSet.cambiar_estado, one database statement per step
\* activo = self.get_object() reads the row; the two parameter checks use
\* no data of the store and answer 400 at once; otherwise the request holds
\* the loaded row until it saves.
CambiarGetObject(w, a, nuevo_estado, motivo) ==
  /\ proc[w].pc = "idle"
  /\ a \in ActIds
  /\ LET p == [pc |-> "save", op |-> "cambiar_estado", id |-> a, cat |-> NoCatData,
               data |-> AssetData({"estado"}, NoDesc, 0, 0, 0, nuevo_estado, NoSerial),
               inst |-> <<activos[a]>>, resp |-> NoResp, motivo |-> motivo]
     IN proc' = [proc EXCEPT ![w] =
                   IF nuevo_estado = ""
                   THEN Answer(p, FALSE, 400, "MISSING_PARAMETER", {}, 0)
                   ELSE IF nuevo_estado \notin EstadoActivo
                   THEN Answer(p, FALSE, 400, "INVALID_STATE", {}, 0)
                   ELSE p]
  /\ UNCHANGED <<store, last>>

\* activo.estado = nuevo_estado; the audit text is appended to the
\* descripcion of the loaded row; activo.save() writes every column of the
\* loaded row.  No transaction and no row lock span the read and the write.
CambiarSave(w) ==
  /\ proc[w].pc = "save"
  /\ proc[w].op = "cambiar_estado"
  /\ activos' = Put(activos, proc[w].id,
                    CambiarEstadoRow(proc[w].inst[1], proc[w].data.estado,
                                     proc[w].motivo))
  /\ proc' = [proc EXCEPT ![w] = Answer(@, TRUE, 200, "", {}, 0)]
  /\ UNCHANGED <<categorias, nextActivoId, nextCategoriaId, last>>

\* One active Categoria and one Activo; every worker serves one
\* cambiar_estado request for that Activo.
CambioCreateBodies ==
  Bodies({RequiredAssetFields \cup {"descripcion", "estado"}},
         RichDescs, {Today - 8}, {500}, {1}, {AC, RE}, {NoSerial})

CambioEstados == {DB, MA, "", "XX"}
CambioMotivos == {"obsoleto", "preventivo"}

InitCambio ==
  /\ categorias = <<[nombre |-> "Electronica", activa |-> TRUE]>>
  /\ activos = <<>>
  /\ nextActivoId = 1
  /\ nextCategoriaId = 2
  /\ last = NoResp
  /\ proc = [w \in Workers |-> Idle]

NextCambio ==
  \/ nextActivoId = 1 /\ \E data \in CambioCreateBodies : ActivoCreate(data)
  \/ Reply
  \/ \E w \in Workers, e \in CambioEstados, m \in CambioMotivos :
        CambiarGetObject(w, 1, e, m)
  \/ \E w \in Workers : CambiarSave(w)

SpecCambio == InitCambio /\ [][NextCambio]_vars

\* ------------------------------------------------------------- SpecError
\* Every writing operation, called with bodies and parameters that it
\* accepts and with ones that it refuses.
ErrorCreateBodies ==
  Bodies({RequiredAssetFields, RequiredAssetFields \cup {"estado"}},
         {NoDesc}, {Today - 6}, {500, HIGH_VALUE + 1}, 1..MaxCats, {AC, DB},
         {NoSerial})

ErrorPatchBodies ==
  Bodies({{"estado"}, {"valor_inicial"}, {"categoria"}},
         {NoDesc}, {Today - 6}, {0, 500}, 1..MaxCats, {MA, DB, "XX"}, {NoSerial})

ErrorIdLists == {<<>>, <<1>>, <<NotAnId>>}

NextError ==
  \/ \E data \in CatBodies : CategoriaCreate(data)
  \/ \E c \in 1..MaxCats, data \in CatPatchBodies : CategoriaUpdate(c, data, TRUE)
  \/ \E c \in 1..MaxCats : CategoriaDestroy(c)
  \/ nextActivoId <= MaxRichAssets /\ \E data \in ErrorCreateBodies : ActivoCreate(data)
  \/ \E a \in 1..MaxRichAssets, data \in ErrorPatchBodies : ActivoUpdate(a, data, TRUE)
  \/ \E a \in 1..MaxRichAssets, e \in {DB, "", "XX"} : CambiarEstado(a, e, "")
  \/ \E ids \in ErrorIdLists, isList \in BOOLEAN :
        (isList \/ ids = <<>>) /\ DarDeBajaMasiva(ids, isList, "obsoleto")
  \/ Reply

SpecError == EmptyStore /\ [][NextError]_vars

\* ================================================================ claims

\* C1: an update of a stored Categoria that submits activa = false (and
\* passes the field-level checks) is rejected with the error on 'activa',
\* reporting the exact number of its assets whose estado is not DADO_BAJA,
\* and leaves the Categoria as it was, whenever that number is at least 1;
\* when it is 0 the update is accepted and the Categoria is inactive.
C1_DeactivationGuard ==
  [][\A c \in CatIds :
       (/\ last'.op = "categoria_update"
        /\ last'.id = c
        /\ "activa" \in last'.cat.sub
        /\ ~last'.cat.activa
        /\ CategoriaFieldErrors(categorias, <<c>>, last'.cat, last'.partial) = {})
       => IF Cardinality(ActivosEnUso(activos, c)) > 0
          THEN /\ ~last'.ok
               /\ last'.errors = {"activa"}
               /\ last'.count = Cardinality(ActivosEnUso(activos, c))
               /\ categorias' = categorias
               /\ categorias[c].activa = categorias'[c].activa
          ELSE /\ last'.ok
               /\ ~categorias'[c].activa]_vars

\* a deactivation rejected for one blocking asset while the Categoria also
\* holds an asset that is DADO_BAJA and does not count
C1_Witness ==
  /\ last.op = "categoria_update"
  /\ ~last.ok
  /\ last.errors = {"activa"}
  /\ last.count = 1
  /\ last.id \in CatIds
  /\ categorias[last.id].activa
  /\ Cardinality(ActivosDe(activos, last.id)) = 2

\* C2: destroy of a Categoria with one or more Activos of any estado fails
\* with CATEGORIA_CON_ACTIVOS carrying the exact count and changes no row;
\* destroy of a Categoria with no Activo removes it and returns its nombre.
C2_DeleteGuard ==
  [][\A c \in CatIds :
       (last'.op = "categoria_destroy" /\ last'.id = c)
       => IF Cardinality(ActivosDe(activos, c)) > 0
          THEN /\ ~last'.ok
               /\ last'.status = 400
               /\ last'.error = "CATEGORIA_CON_ACTIVOS"
               /\ last'.count = Cardinality(ActivosDe(activos, c))
               /\ categorias' = categorias
               /\ activos' = activos
          ELSE /\ last'.ok
               /\ c \notin DOMAIN categorias'
               /\ \A o \in CatIds \ {c} : o \in DOMAIN categorias' /\ categorias'[o] = categorias[o]
               /\ last'.nombre = categorias[c].nombre]_vars

\* a destroy refused although every asset of the Categoria is DADO_BAJA
C2_Witness ==
  /\ last.op = "categoria_destroy"
  /\ ~last.ok
  /\ last.count = 2
  /\ last.id \in CatIds
  /\ \A a \in ActivosDe(activos, last.id) : activos[a].estado = DB

\* no Activo references a Categoria that is not stored
NoDanglingActivo == \A a \in ActIds : activos[a].categoria \in CatIds

\* C3: under every interleaving of a destroy of a Categoria with asset
\* creates and updates, no Activo references a deleted Categoria, and a
\* destroy that does not delete ends with a client error of the
\* category-in-use class (400), never with a server error, the Categoria
\* still stored when it is refused because of its assets.
C3_DeleteRaceIsClientError ==
  /\ NoDanglingActivo
  /\ \A w \in Workers :
       (proc[w].pc = "done" /\ proc[w].op = "categoria_destroy" /\ ~proc[w].resp.ok)
       => /\ proc[w].resp.status = 400
          /\ proc[w].resp.error \in {"CATEGORIA_CON_ACTIVOS", "PROTECTED_ERROR"}

\* C4: no interleaving ends with a deactivation of a Categoria and a create
\* (or move) of an Activo that is not DADO_BAJA into that Categoria both
\* answered with success while the Categoria is inactive and that Activo
\* references it.
C4_DeactivationAtomic ==
  \A d \in Workers, u \in Workers :
    (/\ proc[d].pc = "done"
     /\ proc[d].op = "categoria_update"
     /\ proc[d].resp.ok
     /\ ~proc[d].cat.activa
     /\ proc[u].pc = "done"
     /\ proc[u].op \in {"activo_create", "activo_update"}
     /\ proc[u].resp.ok
     /\ proc[u].data.categoria = proc[d].id)
    => ~(/\ proc[d].id \in CatIds
         /\ ~categorias[proc[d].id].activa
         /\ proc[u].id \in ActIds
         /\ activos[proc[u].id].categoria = proc[d].id
         /\ activos[proc[u].id].estado # DB)

\* C5: after a successful cambiar_estado to DADO_BAJA the asset has a
\* non-empty descripcion and was acquired at least 7 days ago.
C5_ChangeStatusValidates ==
  (/\ last.op = "cambiar_estado"
   /\ last.ok
   /\ last.data.estado = DB
   /\ last.id \in ActIds)
  => /\ activos[last.id].descripcion # NoDesc
     /\ Today - activos[last.id].fecha_adquisicion >= MIN_DAYS_BAJA

\* C6: every stored Activo whose valor_inicial exceeds 5000 has a
\* non-empty numero_serie.
C6_HighValueHasSerial ==
  \A a \in ActIds :
    activos[a].valor_inicial > HIGH_VALUE => activos[a].numero_serie # NoSerial

\* C7: a partial update is judged on the merged record: one that only sets
\* estado = DADO_BAJA on an asset whose stored descripcion is non-empty and
\* whose stored date is at least 7 days old is accepted; one that only
\* empties the descripcion, or only moves the date to within 7 days, of an
\* asset that is DADO_BAJA is rejected.
C7_PartialUsesMergedRecord ==
  [][\A a \in ActIds :
       (last'.op = "activo_update" /\ last'.partial /\ last'.id = a)
       => /\ (/\ last'.data.sub = {"estado"}
              /\ last'.data.estado = DB
              /\ activos[a].descripcion # NoDesc
              /\ Today - activos[a].fecha_adquisicion >= MIN_DAYS_BAJA)
             => (last'.ok /\ activos'[a].estado = DB)
          /\ (/\ activos[a].estado = DB
              /\ \/ /\ last'.data.sub = {"descripcion"}
                    /\ last'.data.descripcion = NoDesc
                 \/ /\ last'.data.sub = {"fecha_adquisicion"}
                    /\ Today - last'.data.fecha_adquisicion < MIN_DAYS_BAJA)
             => (~last'.ok /\ activos' = activos)]_vars

\* C8: a create or full update that submits estado = DADO_BAJA with an
\* empty or absent descripcion is rejected and writes no row; the error is
\* on 'descripcion' whenever the request passes the checks that run before
\* it (the field-level checks and the numero_serie check).
C8_DecommissionNeedsDescription ==
  [][(/\ last'.op \in {"activo_create", "activo_update"}
      /\ ~last'.partial
      /\ Has(last'.data, "estado")
      /\ last'.data.estado = DB
      /\ ~(Has(last'.data, "descripcion") /\ last'.data.descripcion # NoDesc))
     => /\ ~last'.ok
        /\ last'.status = 400
        /\ activos' = activos
        /\ nextActivoId' = nextActivoId
        /\ (/\ ActivoFieldErrors(categorias, activos,
                                 IF last'.op = "activo_create" THEN <<>> ELSE <<last'.id>>,
                                 last'.data, FALSE) = {}
            /\ ~SerialCheckFails(last'.data))
           => last'.errors = {"descripcion"}]_vars

\* a full update to DADO_BAJA that leaves out descripcion is refused with
\* the error on descripcion although the stored row has a descripcion
C8_Witness ==
  /\ last.op = "activo_update"
  /\ ~last.partial
  /\ ~last.ok
  /\ last.errors = {"descripcion"}
  /\ last.data.estado = DB
  /\ ~Has(last.data, "descripcion")
  /\ last.id \in ActIds
  /\ activos[last.id].descripcion # NoDesc
  /\ activos[last.id].estado = AC

\* the acquisition date the 7-day rule reads, as the claim states it
C9_Effective(op, id, data, acts) ==
  IF Has(data, "fecha_adquisicion") THEN data.fecha_adquisicion
  ELSE IF op = "activo_update" THEN acts[id].fecha_adquisicion
  ELSE Today

\* C9: a create or update that submits estado = DADO_BAJA gets the error on
\* 'estado' only if fewer than 7 days lie between the effective
\* fecha_adquisicion (submitted, else stored) and today, and does get it,
\* alone, whenever that is so and the request passes the checks that run
\* before it; an effective date exactly 7 days old never gets it.
C9_SevenDayRule ==
  [][(/\ last'.op \in {"activo_create", "activo_update"}
      /\ Has(last'.data, "estado")
      /\ last'.data.estado = DB
      /\ (last'.op = "activo_create" => Has(last'.data, "fecha_adquisicion")))
     => LET inst == IF last'.op = "activo_create" THEN <<>> ELSE <<last'.id>>
            dias == Today - C9_Effective(last'.op, last'.id, last'.data, activos)
        IN /\ "estado" \in last'.errors => dias < MIN_DAYS_BAJA
           /\ dias < MIN_DAYS_BAJA => ~last'.ok /\ activos' = activos
           /\ (/\ dias < MIN_DAYS_BAJA
               /\ ActivoFieldErrors(categorias, activos, inst, last'.data,
                                    last'.partial) = {}
               /\ ~SerialCheckFails(last'.data)
               /\ Has(last'.data, "descripcion")
               /\ last'.data.descripcion # NoDesc)
              => last'.errors = {"estado"}
           /\ (/\ dias >= MIN_DAYS_BAJA
               /\ ActivoFieldErrors(categorias, activos, inst, last'.data,
                                    last'.partial) = {}
               /\ ~SerialCheckFails(last'.data)
               /\ Has(last'.data, "descripcion")
               /\ last'.data.descripcion # NoDesc)
              => last'.ok /\ activos'[IF last'.op = "activo_create"
                                      THEN nextActivoId ELSE last'.id].estado = DB]_vars

\* a partial update to DADO_BAJA that submits no date is refused on
\* 'estado' because the stored date is 6 days old
C9_Witness ==
  /\ last.op = "activo_update"
  /\ last.partial
  /\ ~last.ok
  /\ last.errors = {"estado"}
  /\ ~Has(last.data, "fecha_adquisicion")
  /\ last.id \in ActIds
  /\ Today - activos[last.id].fecha_adquisicion = MIN_DAYS_BAJA - 1

IdsOf(ids) == {ids[i] : i \in 1..Len(ids)}

\* C10: dar_de_baja_masiva with a non-empty list leaves every stored
\* Activo whose id is in the list DADO_BAJA whatever its descripcion
\* and fecha_adquisicion, ignores ids of no stored Activo, and returns as
\* count the number of distinct stored Activos whose id is in the list.
C10_BulkDecommission ==
  [][(last'.op = "dar_de_baja_masiva" /\ last'.isList /\ last'.ids # <<>>)
     => /\ last'.ok
        /\ last'.status = 200
        /\ DOMAIN activos' = DOMAIN activos
        /\ \A a \in ActIds : a \in IdsOf(last'.ids) => activos'[a].estado = DB
        /\ last'.count = Cardinality(ActIds \cap IdsOf(last'.ids))]_vars

\* two stored assets; the list names one of them and an id of no row:
\* count 1, and the listed asset, 6 days old with no descripcion, is
\* DADO_BAJA
C10_Witness ==
  /\ last.op = "dar_de_baja_masiva"
  /\ last.ok
  /\ last.count = 1
  /\ Len(last.ids) = 2
  /\ \E a \in ActIds :
        /\ last.ids = <<a, MaxAssets + 1>>
        /\ activos[a].estado = DB
        /\ activos[a].descripcion = NoDesc
        /\ Today - activos[a].fecha_adquisicion < MIN_DAYS_BAJA
  /\ Cardinality(ActIds) = 2

\* C11: dar_de_baja_masiva writes nothing but the estado of the stored
\* Activos whose id is in ids: every other field of every Activo, the
\* descripcion included, is as before although a motivo came with the
\* request, the Activos that are not listed keep their estado, no Activo
\* is added or removed, no Categoria changes, and the response carries the
\* motivo as it was sent.
C11_BulkFrame ==
  [][last'.op = "dar_de_baja_masiva"
     => /\ DOMAIN activos' = DOMAIN activos
        /\ \A a \in ActIds :
              /\ \A f \in AssetFields \ {"estado"} : activos'[a][f] = activos[a][f]
              /\ a \notin IdsOf(last'.ids) => activos'[a].estado = activos[a].estado
        /\ categorias' = categorias
        /\ nextActivoId' = nextActivoId
        /\ nextCategoriaId' = nextCategoriaId
        /\ last'.motivo \in BulkMotivos]_vars

\* a bulk decommission with the motivo "robo" of one of two stored assets:
\* the listed one is DADO_BAJA with the descripcion it had, the other one
\* is still MANTENIMIENTO
C11_Witness ==
  /\ last.op = "dar_de_baja_masiva"
  /\ last.ok
  /\ last.motivo = "robo"
  /\ last.ids = <<1>>
  /\ ActIds = {1, 2}
  /\ activos[1].estado = DB
  /\ activos[1].descripcion = SomeDesc
  /\ activos[2].estado = MA

\* C12: a successful cambiar_estado that carries a non-empty motivo and
\* moves the asset to DADO_BAJA or MANTENIMIENTO leaves as descripcion the
\* descripcion it found followed by exactly one audit entry naming the
\* estado the asset had, the new estado and the motivo (so k such calls
\* add k entries in call order); with no motivo, or with the new estado
\* ACTIVO or EN_REPARACION, it leaves the descripcion as it found it.
C12_AuditAppend ==
  [][\A a \in ActIds :
       (last'.op = "cambiar_estado" /\ last'.ok /\ last'.id = a)
       => IF last'.motivo # "" /\ last'.data.estado \in {DB, MA}
          THEN /\ activos'[a].descripcion =
                    activos[a].descripcion \o
                      <<Audit(activos[a].estado, last'.data.estado, last'.motivo)>>
               /\ Len(activos'[a].descripcion) = Len(activos[a].descripcion) + 1
          ELSE activos'[a].descripcion = activos[a].descripcion]_vars

\* the text the asset was created with, then the audit entry of a move to
\* MANTENIMIENTO, then the one of the later move to DADO_BAJA
C12_Witness ==
  /\ last.op = "cambiar_estado"
  /\ last.ok
  /\ 1 \in ActIds
  /\ activos[1].descripcion = SomeDesc \o <<Audit(AC, MA, "preventivo"),
                                            Audit(MA, DB, "preventivo")>>

\* C13: cambiar_estado with an absent or empty estado fails with
\* MISSING_PARAMETER, and with an estado that is none of AC, MA, DB, RE
\* fails with INVALID_STATE, that response listing the four valid estados;
\* in both cases every stored Activo is as before, whether or not a motivo
\* came with the request.
C13_ChangeStatusErrors ==
  [][(last'.op = "cambiar_estado" /\ last'.data.estado \notin EstadoActivo)
     => /\ ~last'.ok
        /\ last'.status = 400
        /\ activos' = activos
        /\ IF last'.data.estado = ""
           THEN last'.error = "MISSING_PARAMETER"
           ELSE /\ last'.error = "INVALID_STATE"
                /\ last'.estados = {AC, MA, DB, RE}
                /\ Cardinality(last'.estados) = 4]_vars

\* an unknown estado sent with a motivo: INVALID_STATE, and the asset is
\* still MANTENIMIENTO with only the text it was created with
C13_Witness ==
  /\ last.op = "cambiar_estado"
  /\ last.error = "INVALID_STATE"
  /\ last.data.estado = "XX"
  /\ last.motivo = "preventivo"
  /\ 1 \in ActIds
  /\ activos[1].estado = MA
  /\ activos[1].descripcion = SomeDesc

\* C14: cambiar_estado enforces no transition graph: called with any of
\* the four estados on an asset in any estado, the same one included, it
\* succeeds and leaves the asset in the estado asked for; DADO_BAJA is not
\* terminal, whether it was set by cambiar_estado or dar_de_baja_masiva.
C14_NoTransitionGraph ==
  [][\A a \in ActIds :
       (/\ last'.op = "cambiar_estado"
        /\ last'.id = a
        /\ last'.data.estado \in EstadoActivo)
       => /\ last'.ok
          /\ last'.status = 200
          /\ activos'[a].estado = last'.data.estado]_vars

\* an asset whose last audit entry records that it left DADO_BAJA for
\* MANTENIMIENTO is ACTIVO again
C14_Witness ==
  /\ last.op = "cambiar_estado"
  /\ last.ok
  /\ last.data.estado = AC
  /\ 1 \in ActIds
  /\ activos[1].estado = AC
  /\ activos[1].descripcion = <<Audit(DB, MA, "preventivo")>>

\* C15: a create, or an update that submits categoria, naming a stored
\* Categoria whose activa is false is rejected with an error on
\* 'categoria' and no Activo is created or modified; so whenever such a
\* request succeeds, the Categoria it names was active when it was
\* validated.
C15_InactiveCategoriaRejected ==
  [][(/\ last'.op \in {"activo_create", "activo_update"}
      /\ Has(last'.data, "categoria")
      /\ last'.data.categoria \in CatIds)
     => /\ ~categorias[last'.data.categoria].activa
           => /\ ~last'.ok
              /\ last'.status = 400
              /\ "categoria" \in last'.errors
              /\ activos' = activos
              /\ nextActivoId' = nextActivoId
        /\ last'.ok => categorias[last'.data.categoria].activa]_vars

\* a partial update that only moves an asset into an inactive Categoria
\* is refused on 'categoria'; the asset stays in the active Categoria
C15_Witness ==
  /\ last.op = "activo_update"
  /\ ~last.ok
  /\ last.data.sub = {"categoria"}
  /\ last.errors = {"categoria"}
  /\ last.data.categoria \in CatIds
  /\ ~categorias[last.data.categoria].activa
  /\ last.id \in ActIds
  /\ activos[last.id].categoria # last.data.categoria
  /\ categorias[activos[last.id].categoria].activa

\* the sum of one column of the per-category rows
RECURSIVE C16_Sum(_, _, _)
C16_Sum(rows, col, cs) ==
  IF cs = {} THEN 0
  ELSE LET c == CHOOSE x \in cs : TRUE
       IN rows[c][col] + C16_Sum(rows, col, cs \ {c})

\* C16: in the summary the per-category subtotals are taken over the
\* filtered working set: a Categoria is listed exactly when an asset of
\* the working set references it, with the count and the summed
\* valor_inicial of its assets in the working set, and the counts and
\* values of the listed Categorias add up to total_activos and valor_total.
C16_SubtotalsOverWorkingSet ==
  last.op = "resumen"
  => LET sel == GetQueryset(activos, last.query)
         de(c) == {a \in sel : activos[a].categoria = c}
         listed == DOMAIN last.por_categoria
     IN /\ listed = {c \in CatIds : de(c) # {}}
        /\ \A c \in listed :
              /\ last.por_categoria[c].cantidad = Cardinality(de(c))
              /\ last.por_categoria[c].valor_total = SumValor(activos, de(c))
        /\ C16_Sum(last.por_categoria, "cantidad", listed) = last.total_activos
        /\ C16_Sum(last.por_categoria, "valor_total", listed) = last.valor_total

\* the value band of the claim: < 1000, [1000, 10000), >= 10000
C17_Band(v) == IF v < 1000 THEN "low" ELSE IF v < 10000 THEN "mid" ELSE "high"

\* C17: in the summary every asset of the working set is counted in
\* exactly one of the three value bands (1000 in the middle one, 10000 in
\* the top one), the three counts add up to total_activos, and valor_total
\* is the sum of valor_inicial over the working set, 0 when it is empty;
\* the values 500, 1500 and 12000 give one asset per band and 14000.
C17_BandsPartition ==
  last.op = "resumen"
  => LET sel == GetQueryset(activos, last.query)
         r == last.rangos_de_valor
         in(b) == Cardinality({a \in sel : C17_Band(activos[a].valor_inicial) = b})
     IN /\ r.menos_1000 = in("low")
        /\ r.entre_1000_y_10000 = in("mid")
        /\ r.mas_de_10000 = in("high")
        /\ r.menos_1000 + r.entre_1000_y_10000 + r.mas_de_10000 = last.total_activos
        /\ last.total_activos = Cardinality(sel)
        /\ last.valor_total = SumValor(activos, sel)
        /\ sel = {} => last.valor_total = 0
        /\ (/\ last.query.sub = {}
            /\ Cardinality(ActIds) = 3
            /\ {activos[a].valor_inicial : a \in ActIds} = {500, 1500, 12000})
           => /\ r = [menos_1000 |-> 1, entre_1000_y_10000 |-> 1, mas_de_10000 |-> 1]
              /\ last.valor_total = 14000

\* the summary of three assets worth 1000, 10000 and 500, unfiltered:
\* one asset in each band
C17_Witness ==
  /\ last.op = "resumen"
  /\ last.query.sub = {}
  /\ {activos[a].valor_inicial : a \in ActIds} = {500, 1000, 10000}
  /\ last.rangos_de_valor =
       [menos_1000 |-> 1, entre_1000_y_10000 |-> 1, mas_de_10000 |-> 1]
  /\ last.valor_total = 11500

\* C18: the list filtered with requieren_revision holds exactly the stored
\* assets whose derived requiere_revision is true (edad_en_anios > 5, with
\* edad_en_anios = edad_en_dias / 365.25 rounded to one decimal).
C18_FilterIsNeedsReview ==
  (last.op = "activo_list" /\ "requieren_revision" \in last.query.sub)
  => last.results = {a \in ActIds : RequiereRevision(activos[a])}

\* the stored assets that reference Categoria c, and the sum of their
\* valor_inicial, as the claim counts them
C19_De(acts, c) == {a \in DOMAIN acts : acts[a].categoria = c}
C19_Valor(acts, c) == SumValor(acts, C19_De(acts, c))

\* C19: the total_activos a Categoria is served with is the number of
\* stored assets that reference it, DADO_BAJA included, and its
\* valor_total the sum of their valor_inicial, both 0 when there is none;
\* decommissioning (cambiar_estado, dar_de_baja_masiva) changes neither
\* for any Categoria, and deleting an asset lowers the total_activos of
\* its Categoria by one and its valor_total by the asset's value.
C19_CategoriaTotals ==
  [][/\ last'.op = "categoria_retrieve"
        => /\ last'.total_activos = Cardinality(C19_De(activos, last'.id))
           /\ last'.valor_total = C19_Valor(activos, last'.id)
           /\ C19_De(activos, last'.id) = {}
                 => last'.total_activos = 0 /\ last'.valor_total = 0
     /\ last'.op \in {"cambiar_estado", "dar_de_baja_masiva"}
        => \A c \in CatIds :
              /\ TotalActivos(activos', c) = TotalActivos(activos, c)
              /\ ValorTotal(activos', c) = ValorTotal(activos, c)
     /\ last'.op = "activo_destroy"
        => LET c == activos[last'.id].categoria
           IN /\ TotalActivos(activos', c) = TotalActivos(activos, c) - 1
              /\ ValorTotal(activos', c)
                   = ValorTotal(activos, c) - activos[last'.id].valor_inicial
              /\ \A o \in CatIds \ {c} :
                    TotalActivos(activos', o) = TotalActivos(activos, o)]_vars

\* a Categoria served with total_activos 2 and valor_total 2000 while one
\* of its two assets is DADO_BAJA
C19_Witness ==
  /\ last.op = "categoria_retrieve"
  /\ last.total_activos = 2
  /\ last.valor_total = 2000
  /\ \E a \in ActIds : activos[a].categoria = last.id /\ activos[a].estado = DB
  /\ \E a \in ActIds : activos[a].categoria = last.id /\ activos[a].estado = AC

\* the normal form of a codigo as the claim states it: trim, then
\* upper-case
C20_Normalize(t) == UpperStr(Strip(t))

\* the codigos the claim says are refused: empty, whitespace inside, or a
\* character that is neither a letter nor a digit
C20_Bad(t) ==
  \/ Strip(t) = <<>>
  \/ \E i \in 1..Len(Strip(t)) : Strip(t)[i] \notin {"a", "A", "1"}

\* C20: normalizing a codigo twice gives what normalizing it once gives;
\* every stored codigo is in normal form; a create or update that is
\* accepted stores the normal form of the submitted codigo (so "a1" and
\* "A1" saved on the same Categoria leave the same stored "A1"); an empty
\* codigo, one with whitespace inside or one with a non-alphanumeric
\* character is rejected with the error on 'codigo' and stores nothing.
C20_CodigoNormalized ==
  [][last'.op \in {"categoria_create", "categoria_update"}
     => /\ C20_Normalize(C20_Normalize(last'.raw)) = C20_Normalize(last'.raw)
        /\ \A c \in DOMAIN categorias' :
              C20_Normalize(categorias'[c].codigo) = categorias'[c].codigo
        /\ last'.ok => categorias'[last'.id].codigo = C20_Normalize(last'.raw)
        /\ C20_Bad(last'.raw)
              => /\ ~last'.ok
                 /\ last'.status = 400
                 /\ last'.errors = {"codigo"}
                 /\ categorias' = categorias]_vars

\* the Categoria stored with "A1" is saved again with "a1 " and still
\* holds "A1"
C20_Witness ==
  /\ last.op = "categoria_update"
  /\ last.ok
  /\ last.id = 1
  /\ last.raw = <<"a", "1", " ">>
  /\ categorias[1].codigo = <<"A", "1">>

\* C21: dar_de_baja_masiva fails with INVALID_PARAMETER when 'ids' is
\* absent or empty, is not a list, or is a list with an element that is
\* not an identifier, and in those cases every Activo is as before.
C21_BulkInvalidParameter ==
  [][(/\ last'.op = "dar_de_baja_masiva"
      /\ \/ last'.ids = <<>>
         \/ ~last'.isList
         \/ \E i \in 1..Len(last'.ids) : last'.ids[i] = NotAnId)
     => /\ ~last'.ok
        /\ last'.status = 400
        /\ last'.error = "INVALID_PARAMETER"
        /\ activos' = activos]_vars

\* C22: in every state reached by create, update, cambiar_estado and
\* dar_de_baja_masiva the estado of every stored Activo is one of AC, MA,
\* DB, RE, and an Activo created from a body without 'estado' is stored
\* as AC.
C22_EstadoValido ==
  /\ \A a \in ActIds : activos[a].estado \in EstadoActivo
  /\ (last.op = "activo_create" /\ last.ok /\ ~Has(last.data, "estado"))
       => activos[last.id].estado = AC

C22_Witness ==
  /\ last.op = "activo_create"
  /\ last.ok
  /\ ~Has(last.data, "estado")
  /\ activos[last.id].estado = AC

C24_Done(a) ==
  {w \in Workers : /\ proc[w].pc = "done"
                   /\ proc[w].op = "cambiar_estado"
                   /\ proc[w].id = a
                   /\ proc[w].resp.ok}

\* the audit entries of a descripcion written for (nuevo, motivo)
C24_Entries(d, nuevo, motivo) ==
  {i \in 1..Len(d) : d[i] = Audit(d[i].anterior, nuevo, motivo)}

\* C24: when two cambiar_estado requests with a motivo (DB or MA) run at
\* the same time on one Activo, no audit entry is lost: whatever the
\* interleaving, once both have answered the descripcion starts with the
\* content each request loaded and holds one audit entry per request, and
\* the estado is the nuevo_estado of one of the two.
C24_NoAuditEntryLost ==
  \A a \in ActIds :
    \A w1, w2 \in C24_Done(a) :
      w1 # w2 =>
        LET d == activos[a].descripcion
        IN /\ \A w \in {w1, w2} :
                /\ Len(proc[w].inst[1].descripcion) <= Len(d)
                /\ SubSeq(d, 1, Len(proc[w].inst[1].descripcion))
                     = proc[w].inst[1].descripcion
                /\ Cardinality(C24_Entries(d, proc[w].data.estado, proc[w].motivo))
                     >= Cardinality({x \in C24_Done(a) :
                                       /\ proc[x].data.estado = proc[w].data.estado
                                       /\ proc[x].motivo = proc[w].motivo})
           /\ activos[a].estado \in {proc[w1].data.estado, proc[w2].data.estado}

\* C25: in every reachable state no two Categorias hold the same stored
\* codigo, and uniqueness is decided on the normal form (upper case,
\* trimmed): a create whose codigo has the normal form of a stored codigo
\* ("a1" while "A1" is stored) adds no Categoria, and an update that gives
\* a Categoria the codigo of another one in any spelling changes nothing.
C25_CodigoUnique ==
  [][/\ \A c1, c2 \in DOMAIN categorias' :
          c1 # c2 => categorias'[c1].codigo # categorias'[c2].codigo
     /\ (/\ last'.op \in {"categoria_create", "categoria_update"}
         /\ \E o \in CatIds :
               /\ o # last'.id
               /\ categorias[o].codigo = UpperStr(Strip(last'.raw)))
        => /\ ~last'.ok
           /\ categorias' = categorias]_vars

\* "a1" was submitted for a new Categoria while another one holds "A1":
\* the request failed and one Categoria is stored
C25_Witness ==
  /\ last.op = "categoria_create"
  /\ last.raw = <<"a", "1">>
  /\ ~last.ok
  /\ Cardinality(CatIds) = 1
  /\ categorias[1].codigo = <<"A", "1">>

\* C26: an operation that ends in an error leaves the store as it was: a
\* refused create or update of an Activo or a Categoria, a cambiar_estado
\* that fails with MISSING_PARAMETER or INVALID_STATE, a dar_de_baja_masiva
\* that fails with INVALID_PARAMETER and a Categoria deletion that fails
\* with CATEGORIA_CON_ACTIVOS change no Categoria and no Activo.
C26_ErrorLeavesStore ==
  [][(last'.op # "none" /\ ~last'.ok)
     => /\ categorias' = categorias
        /\ activos' = activos]_vars

\* a Categoria with an Activo was to be deleted and the deletion was
\* refused: both are stored
C26_Witness ==
  /\ last.op = "categoria_destroy"
  /\ ~last.ok
  /\ last.error = "CATEGORIA_CON_ACTIVOS"
  /\ last.id \in CatIds
  /\ ActivosDe(activos, last.id) # {}

====
